---- MODULE Spec2Model ----
(***************************************************************************)
(* The library catalog of express-playground: four collections (Author,    *)
(* Genre, Book, BookInstance) in a document store and the request          *)
(* handlers of src/controllers.  A state is the store plus the handler     *)
(* that ran last and the response actions it issued.  Under Spec a handler *)
(* runs as one step; under SpecInterleaved a delete-submit is two steps,    *)
(* its reads and its removal, and pending holds the ones in between.       *)
(*                                                                         *)
(* Strings are sequences of one-character strings, so that trim, escape,   *)
(* length and character-class rules are computed rather than assumed.      *)
(* A word such as a status is a one-element sequence holding the word: an  *)
(* atom of alphanumeric characters, which trim and escape leave alone.     *)
(* Identifiers in the path and in delete bodies are well-formed ObjectIds. *)
(***************************************************************************)
EXTENDS Integers, Sequences, FiniteSets, TLC

VARIABLES authors, genres, books, bookinstances, nextId, op, res, pending

vars == <<authors, genres, books, bookinstances, nextId, op, res, pending>>

store == <<authors, genres, books, bookinstances>>

\* ------------------------------------------------------------------ bounds

\* Identifiers the store hands out (and requests may name): 1..MaxId.
MaxId == 2

Ids == 1..MaxId

\* Delete-submits that may be between their reads and their removal at once.
MaxPending == 1

\* ----------------------------------------------------------------- strings

\* JavaScript's undefined and null, as values no string equals.
Undefined == <<"undefined">>

Null == <<"null">>

Empty == <<>>

LowerCase == <<"a","b","c","d","e","f","g","h","i","j","k","l","m",
               "n","o","p","q","r","s","t","u","v","w","x","y","z">>

UpperCase == <<"A","B","C","D","E","F","G","H","I","J","K","L","M",
               "N","O","P","Q","R","S","T","U","V","W","X","Y","Z">>

Digits == <<"0","1","2","3","4","5","6","7","8","9">>

Range(s) == {s[i] : i \in DOMAIN s}

\* express-validator's toString: undefined and null become the empty string.
ToStr(v) == IF v = Undefined \/ v = Null THEN Empty ELSE v

\* validator.js trim: whitespace off both ends.
RECURSIVE LTrim(_)
LTrim(s) == IF s # Empty /\ Head(s) = " " THEN LTrim(Tail(s)) ELSE s

RECURSIVE RTrim(_)
RTrim(s) == IF s # Empty /\ s[Len(s)] = " " THEN RTrim(SubSeq(s, 1, Len(s) - 1)) ELSE s

Trim(s) == RTrim(LTrim(s))

\* validator.js escape: the markup characters become entities (the grave
\* accent, which the string syntax here cannot write, is left out).
EscapeChar(c) ==
  CASE c = "&"  -> <<"&","a","m","p",";">>
    [] c = "\"" -> <<"&","q","u","o","t",";">>
    [] c = "'"  -> <<"&","#","x","2","7",";">>
    [] c = "<"  -> <<"&","l","t",";">>
    [] c = ">"  -> <<"&","g","t",";">>
    [] c = "/"  -> <<"&","#","x","2","F",";">>
    [] c = "\\" -> <<"&","#","x","5","C",";">>
    [] OTHER    -> <<c>>

RECURSIVE Escape(_)
Escape(s) == IF s = Empty THEN Empty ELSE EscapeChar(Head(s)) \o Escape(Tail(s))

\* validator.js isLength({min}).
IsLength(s, min) == Len(s) >= min

\* validator.js isAlphanumeric (en-US): /^[0-9A-Z]+$/i.
IsAlphanumeric(s) ==
  /\ s # Empty
  /\ Range(s) \subseteq (Range(LowerCase) \cup Range(UpperCase) \cup Range(Digits))

\* Case folding, as the collation {locale: "en", strength: 2} compares.
LowerChar(c) ==
  IF \E i \in DOMAIN UpperCase : UpperCase[i] = c
  THEN LowerCase[CHOOSE i \in DOMAIN UpperCase : UpperCase[i] = c]
  ELSE c

Lower(s) == [i \in DOMAIN s |-> LowerChar(s[i])]

\* The comparison findOne would make without the collation.
CollationEqual_Exact(s, t) == s = t

CollationEqual(s, t) == Lower(s) = Lower(t)

DigitValue(c) == (CHOOSE i \in DOMAIN Digits : Digits[i] = c) - 1

IsDigit(c) == c \in Range(Digits)

\* validator.js isISO8601 on a calendar date YYYY-MM-DD (the form the date
\* inputs of the forms submit): digits, dashes, month 01..12, day 01..31.
IsISO8601(s) ==
  /\ Len(s) = 10
  /\ \A i \in {1, 2, 3, 4, 6, 7, 9, 10} : IsDigit(s[i])
  /\ s[5] = "-" /\ s[8] = "-"
  /\ 10 * DigitValue(s[6]) + DigitValue(s[7]) \in 1..12
  /\ 10 * DigitValue(s[9]) + DigitValue(s[10]) \in 1..31

\* validator.js toDate: a Date for a parseable string, else null.
ToDate(s) == IF IsISO8601(s) THEN <<"Date">> \o s ELSE Null

\* An ObjectId as the 24-hex string a request carries it in, shortened to
\* the one digit that tells identifiers apart.
IdString(i) == <<Digits[i + 1]>>

\* mongoose castObjectId: the ObjectId a string denotes; a string that
\* denotes none (the empty string among them) fails to cast and the field
\* stays undefined, written 0.
CastObjectId(s) ==
  IF \E i \in 1..9 : s = IdString(i)
  THEN CHOOSE i \in 1..9 : s = IdString(i)
  ELSE 0

\* mongoose's Date cast: null for the empty string and for null.
CastDate(v) == IF v = Empty \/ v = Null THEN Null ELSE v

\* Code-point order of the characters the inputs use (the store's default
\* string comparison), for the sorted list views.
Ascii == <<" ", "\"", "#", "&", "'", "-", "/">> \o Digits \o <<";", "<", ">">>
         \o UpperCase \o <<"\\">> \o LowerCase

CharRank(c) ==
  IF \E i \in DOMAIN Ascii : Ascii[i] = c
  THEN CHOOSE i \in DOMAIN Ascii : Ascii[i] = c
  ELSE 0

RECURSIVE StrLess(_, _)
StrLess(s, t) ==
  IF t = Empty THEN FALSE
  ELSE IF s = Empty THEN TRUE
  ELSE IF Head(s) = Head(t) THEN StrLess(Tail(s), Tail(t))
  ELSE CharRank(Head(s)) < CharRank(Head(t))

\* The documents of collection c (a function from identifiers to fields) in
\* ascending order of field f, ties in identifier order: find().sort({f: 1}).
RECURSIVE SortBy(_, _, _)
SortBy(c, S, f) ==
  IF S = {} THEN <<>>
  ELSE LET m == CHOOSE x \in S :
                  \A y \in S \ {x} :
                     \/ StrLess(c[x][f], c[y][f])
                     \/ (~StrLess(c[y][f], c[x][f]) /\ x < y)
       IN <<m>> \o SortBy(c, S \ {m}, f)

\* ------------------------------------------------------------- validation

FieldError(path, msg) == [path |-> path, msg |-> msg]

\* A handler that does not look at the result of the validation.
IsEmpty_Always(errors) == TRUE

\* validationResult(req).isEmpty().
IsEmpty(errors) == errors = <<>>

\* The chain without its escape().
TrimLengthEscape_NoEscape(raw, min, path, msg) ==
  LET trimmed == Trim(ToStr(raw))
  IN [value  |-> trimmed,
      errors |-> IF IsLength(trimmed, min) THEN <<>> ELSE <<FieldError(path, msg)>>]

\* body(path, msg).trim().isLength({min}).escape(): the length rule reads
\* the trimmed value; the value left in the body is trimmed and escaped.
TrimLengthEscape(raw, min, path, msg) ==
  LET trimmed == Trim(ToStr(raw))
  IN [value  |-> Escape(trimmed),
      errors |-> IF IsLength(trimmed, min) THEN <<>> ELSE <<FieldError(path, msg)>>]

\* body(path).trim().isLength({min: 1}).escape().withMessage(m1)
\*   .isAlphanumeric().withMessage(m2): both rules run, the character-class
\* rule on the escaped value.
NameChain(raw, path, m1, m2) ==
  LET trimmed == Trim(ToStr(raw))
      escaped == Escape(trimmed)
  IN [value  |-> escaped,
      errors |-> (IF IsLength(trimmed, 1) THEN <<>> ELSE <<FieldError(path, m1)>>)
                 \o (IF IsAlphanumeric(escaped) THEN <<>> ELSE <<FieldError(path, m2)>>)]

\* body(path, msg).optional({values: "falsy"}).isISO8601().toDate(): a falsy
\* value skips the chain and stays as submitted.
DateChain(raw, path, msg) ==
  IF raw \in {Undefined, Null, Empty}
  THEN [value |-> raw, errors |-> <<>>]
  ELSE [value  |-> ToDate(raw),
        errors |-> IF IsISO8601(raw) THEN <<>> ELSE <<FieldError(path, msg)>>]

\* body(path).escape(): no rule, the value is escaped.
EscapeOnly(raw) == [value |-> Escape(ToStr(raw)), errors |-> <<>>]

\* A Date path of a new document: undefined stays unset, "" casts to null.
DateField(v) == IF v = Undefined THEN Undefined ELSE CastDate(v)

\* -------------------------------------------------------------- responses

\* res.render("layout", ...) after ejs.renderFile(view, ctx) called back with
\* the markup: the view and the data context it was given.
Render(view, ctx) == [kind |-> "render", view |-> view, ctx |-> ctx]

Redirect(to) == [kind |-> "redirect", to |-> to]

\* next(err): the error handler answers with err.status, or 500.
Error(status) == [kind |-> "error", status |-> status]

\* The error of a handler that leaves err.status unset.
NotFound_NoStatus == Error(500)

NotFound == Error(404)

\* An exception the handler did not catch: asyncHandler hands it to next().
Thrown == Error(500)

\* What findById returns when no document has the identifier (null).
NoDoc == [_id |-> 0]

\* A document as a query returns it: its fields and its identifier.
Doc(c, id) == IF id \in DOMAIN c THEN [_id |-> id] @@ c[id] ELSE NoDoc

\* findByIdAndRemove(id) on a collection.
Remove(c, id) == [x \in (DOMAIN c) \ {id} |-> c[x]]

\* save() of a new document d under identifier id.
Insert(c, id, d) == [x \in (DOMAIN c) \cup {id} |-> IF x = id THEN d ELSE c[x]]

\* An update that writes nothing.
Update_Nothing(c, id, cand, set) == c

\* findByIdAndUpdate(id, candidate): the paths the candidate defines (set)
\* are written to the stored document, if there is one; nothing is inserted.
Update(c, id, cand, set) ==
  IF id \notin DOMAIN c THEN c
  ELSE [c EXCEPT ![id] = [f \in DOMAIN c[id] |-> IF f \in set THEN cand[f] ELSE c[id][f]]]

\* What ejs.renderFile calls back with (TRUE: the markup, FALSE: an error,
\* which the handler logs).  A view given null for its document may fail or
\* be rendered all the same: the views are not part of the sources.  A view
\* given its documents is rendered.
RenderOutcomes(found) == IF found THEN {TRUE} ELSE BOOLEAN

\* console.log(err) in the callback of ejs.renderFile: no answer to the
\* request, but part of what the handler did.
Logged == [kind |-> "log"]

\* The call ejs.renderFile(view, ctx, callback) with the handlers' callback:
\* an error is logged and nothing is answered; the markup goes to
\* res.render, which answers, or, when the response was sent already
\* (sent), throws, and the exception reaches the error handler.
RenderCall(view, ctx, ok, sent) ==
  IF ~ok THEN <<Logged>>
  ELSE IF sent THEN <<Thrown>>
  ELSE <<Render(view, ctx)>>

\* The identifiers of S in ascending order: the order find() returns them in.
RECURSIVE IdSeq(_)
IdSeq(S) ==
  IF S = {} THEN <<>>
  ELSE LET m == CHOOSE x \in S : \A y \in S : x <= y IN <<m>> \o IdSeq(S \ {m})

\* ------------------------------------------------------------------- urls

Url(prefix, id) == <<prefix, id>>

\* The url virtual of the Genre and BookInstance schemas.
GenreUrl(id) == Url("/catalog/genre/", id)

\* The virtual with the path of another kind.
BookInstanceUrl_Book(id) == Url("/catalog/book/", id)

BookInstanceUrl(id) == Url("/catalog/bookinstance/", id)

\* The url virtual of the Author and Book schemas, whose files are not among
\* the sources: the detail path of the interface table.
AuthorUrl(id) == Url("/catalog/author/", id)

BookUrl(id) == Url("/catalog/book/", id)

\* ---------------------------------------------------------------- queries

\* Book.find({author: id}), Book.find({genre: id}), BookInstance.find({book: id}).
BooksByAuthor(id) == {b \in DOMAIN books : books[b].author = id}

BooksInGenre(id) == {b \in DOMAIN books : id \in Range(books[b].genre)}

\* The query of a handler that finds no BookInstance of any Book.
InstancesOfBook_None(id) == {}

InstancesOfBook(id) == {i \in DOMAIN bookinstances : bookinstances[i].book = id}

\* The guard off by one: length > 1.
NonEmpty_MoreThanOne(found) == Cardinality(found) > 1

\* allBooksByAuthor.length > 0, and its like in the other delete handlers.
NonEmpty(found) == Cardinality(found) > 0

\* ------------------------------------------------------- validation chains

\* The genre field of a submitted Book form: absent, one value, or several.
\* The record holds the values submitted and what typeof and instanceof
\* tell of the field.
GenreAbsent == [type |-> "undefined", value |-> <<>>]

GenreScalar(v) == [type |-> "string", value |-> <<v>>]

GenreArray(vs) == [type |-> "array", value |-> vs]

\* A number, as a JSON body (express.json()) may carry one: its digit.
GenreNumber(n) == [type |-> "number", value |-> <<IdString(n)>>]

\* "Convert the genre to an array": the first middleware of the Book posts.
\* new Array(v) is [v] for a string and, for a number, v empty slots, which
\* read as undefined.
GenreToArray(g) ==
  IF g.type = "array" THEN g.value
  ELSE IF g.type = "undefined" THEN <<>>
  ELSE IF g.type = "number" THEN [i \in 1..DigitValue(g.value[1][1]) |-> Undefined]
  ELSE <<g.value[1]>>

\* The four chains of author_create_post and author_update_post.
AuthorValidation(body) ==
  LET first  == NameChain(body.first_name, "first_name",
                          "First name must be specified.",
                          "First name has non-alphanumeric characters.")
      family == NameChain(body.family_name, "family_name",
                          "Family name must be specified.",
                          "Family name has non-alphanumeric characters.")
      birth  == DateChain(body.date_of_birth, "date_of_birth", "Invalid date of birth")
      death  == DateChain(body.date_of_death, "date_of_death", "Invalid date of death")
  IN [body   |-> [first_name |-> first.value, family_name |-> family.value,
                  date_of_birth |-> birth.value, date_of_death |-> death.value],
      errors |-> first.errors \o family.errors \o birth.errors \o death.errors]

\* The chain of genre_create_post and genre_update_post.
GenreValidation(body) ==
  LET name == TrimLengthEscape(body.name, 3, "name",
                               "Genre name must contain at least 3 characters")
  IN [body |-> [name |-> name.value], errors |-> name.errors]

\* The chains of book_create_post and book_update_post, after the
\* conversion; body("genre.*").escape() escapes each element.
BookValidation(body) ==
  LET genre   == GenreToArray(body.genre)
      title   == TrimLengthEscape(body.title, 1, "title", "Title must not be empty.")
      author  == TrimLengthEscape(body.author, 1, "author", "Author must not be empty.")
      summary == TrimLengthEscape(body.summary, 1, "summary", "Summary must not be empty.")
      isbn    == TrimLengthEscape(body.isbn, 1, "isbn", "ISBN must not be empty")
  IN [body   |-> [title |-> title.value, author |-> author.value,
                  summary |-> summary.value, isbn |-> isbn.value,
                  genre |-> [i \in DOMAIN genre |-> EscapeOnly(genre[i]).value]],
      errors |-> title.errors \o author.errors \o summary.errors \o isbn.errors]

\* The chains of bookinstance_create_post and bookinstance_update_post.
BookInstanceValidation(body) ==
  LET book    == TrimLengthEscape(body.book, 1, "book", "Book must be specified")
      imprint == TrimLengthEscape(body.imprint, 1, "imprint", "Imprint must be specified")
      status  == EscapeOnly(body.status)
      due     == DateChain(body.due_back, "due_back", "Invalid date")
  IN [body   |-> [book |-> book.value, imprint |-> imprint.value,
                  status |-> status.value, due_back |-> due.value],
      errors |-> book.errors \o imprint.errors \o status.errors \o due.errors]

\* ----------------------------------------------------------------- inputs

\* GenreSchema: name {required, minLength, maxLength}.
GenreMinLength == 3

GenreMaxLength == 100

\* The validation save() runs against GenreSchema.
GenreSchemaAccepts(g) == Len(g.name) >= GenreMinLength /\ Len(g.name) <= GenreMaxLength

\* The forms a request may submit: for each kind some valid submissions
\* and some a rule rejects.
AuthorBase ==
  [first_name |-> <<"A","l">>, family_name |-> <<"B","o">>,
   date_of_birth |-> Empty, date_of_death |-> Empty]

BirthDate == <<"1","9","9","0","-","0","1","-","0","2">>

NotADate == <<"n","o","t","-","a","-","d","a","t","e">>

AuthorBodies ==
  {AuthorBase,
   [AuthorBase EXCEPT !.family_name = <<" ","C","y"," ">>, !.date_of_birth = BirthDate],
   [AuthorBase EXCEPT !.family_name = Empty],
   [AuthorBase EXCEPT !.family_name = <<"O","'","N">>],
   [AuthorBase EXCEPT !.date_of_birth = NotADate]}

\* A name one character longer than GenreSchema allows.
LongName == [i \in 1..(GenreMaxLength + 1) |-> "x"]

GenreBodies ==
  {[name |-> n] : n \in {<<"a","&","b">>, <<" ","A","&","B"," ">>,
                         <<"a","b"," ">>, <<"x","y","z">>, Undefined, LongName}}

BookBase ==
  [title |-> <<"D","u","n","e">>, author |-> IdString(1), summary |-> <<"s">>,
   isbn |-> <<"9">>, genre |-> GenreAbsent]

BookBodies ==
  {[BookBase EXCEPT !.author = IdString(a)] : a \in Ids}
  \cup {[BookBase EXCEPT !.genre = GenreArray(<<IdString(g)>>)] : g \in Ids}
  \cup {[BookBase EXCEPT !.genre = GenreScalar(IdString(1))],
        [BookBase EXCEPT !.genre = GenreNumber(2)],
        [BookBase EXCEPT !.title = <<" ">>],
        [BookBase EXCEPT !.author = Empty, !.genre = GenreScalar(IdString(1))]}

BookInstanceBase ==
  [book |-> IdString(1), imprint |-> <<"I">>, status |-> <<"Available">>,
   due_back |-> Empty]

BookInstanceBodies ==
  {[BookInstanceBase EXCEPT !.book = IdString(b)] : b \in Ids}
  \cup {[BookInstanceBase EXCEPT !.status = st] : st \in {<<"Maintenance">>, <<"Bogus">>}}
  \cup {[BookInstanceBase EXCEPT !.book = b] : b \in {Empty, Undefined}}
  \cup {[BookInstanceBase EXCEPT !.imprint = Empty],
        [BookInstanceBase EXCEPT !.due_back = NotADate],
        [BookInstanceBase EXCEPT !.due_back = Undefined]}

\* What the validation middleware leaves of each submission: the sanitized
\* body and the errors validationResult(req) reports.
AuthorChecked == [b \in AuthorBodies |-> AuthorValidation(b)]

GenreChecked == [b \in GenreBodies |-> GenreValidation(b)]

BookChecked == [b \in BookBodies |-> BookValidation(b)]

BookInstanceChecked == [b \in BookInstanceBodies |-> BookInstanceValidation(b)]

\* ---------------------------------------------------------------- authors

\* The candidate with the two names in each other's place.
NewAuthor_Swapped(b) ==
  [first_name    |-> b.family_name,
   family_name   |-> b.first_name,
   date_of_birth |-> DateField(b.date_of_birth),
   date_of_death |-> DateField(b.date_of_death)]

\* new Author({...}) from the sanitized body.
NewAuthor(b) ==
  [first_name    |-> b.first_name,
   family_name   |-> b.family_name,
   date_of_birth |-> DateField(b.date_of_birth),
   date_of_death |-> DateField(b.date_of_death)]

\* The paths an Author candidate defines.
AuthorPaths(a) ==
  {"first_name", "family_name"}
    \cup {f \in {"date_of_birth", "date_of_death"} : a[f] # Undefined}

author_list ==
  /\ op' = "author_list"
  /\ res' = <<Render("author-list",
                     [title |-> "Book Instance List",
                      author_list |-> SortBy(authors, DOMAIN authors, "family_name")])>>
  /\ UNCHANGED <<store, nextId, pending>>

author_detail(id) ==
  /\ op' = "author_detail"
  /\ res' = IF id \notin DOMAIN authors
            THEN <<NotFound>>
            ELSE <<Render("author-detail",
                          [title |-> "Author Detail",
                           author |-> Doc(authors, id),
                           author_books |-> IdSeq(BooksByAuthor(id))])>>
  /\ UNCHANGED <<store, nextId, pending>>

author_create_get ==
  /\ op' = "author_create_get"
  /\ res' = <<Render("author-form", [title |-> "Create Author", errors |-> Null])>>
  /\ UNCHANGED <<store, nextId, pending>>

author_create_post(body) ==
  LET v      == AuthorChecked[body]
      author == NewAuthor(v.body)
  IN /\ op' = "author_create_post"
     /\ IF ~IsEmpty(v.errors)
        THEN /\ res' = <<Render("author-form",
                                [title |-> "Create Author", author |-> author,
                                 errors |-> v.errors])>>
             /\ UNCHANGED <<store, nextId, pending>>
        ELSE /\ nextId <= MaxId
             /\ authors' = Insert(authors, nextId, author)
             /\ nextId' = nextId + 1
             /\ res' = <<Redirect(<<"/catalog/authors">>)>>
             /\ UNCHANGED <<genres, books, bookinstances, pending>>

author_delete_get(id, ok) ==
  LET found == id \in DOMAIN authors
  IN /\ ok \in RenderOutcomes(found)
     /\ op' = "author_delete_get"
     /\ res' = (IF found THEN <<>> ELSE <<Redirect(<<"/catalog/authors">>)>>)
               \o RenderCall("author-delete",
                             [title |-> "Delete Author",
                              author |-> Doc(authors, id),
                              author_books |-> IdSeq(BooksByAuthor(id))],
                             ok, ~found)
     /\ UNCHANGED <<store, nextId, pending>>

author_delete_post(id, authorid, ok) ==
  /\ op' = "author_delete_post"
  /\ IF NonEmpty(BooksByAuthor(id))
     THEN /\ ok \in RenderOutcomes(id \in DOMAIN authors)
          /\ res' = RenderCall("author-delete",
                               [title |-> "Delete Author",
                                author |-> Doc(authors, id),
                                author_books |-> IdSeq(BooksByAuthor(id))],
                               ok, FALSE)
          /\ UNCHANGED <<store, nextId, pending>>
     ELSE /\ ok
          /\ authors' = Remove(authors, authorid)
          /\ res' = <<Redirect(<<"/catalog/authors">>)>>
          /\ UNCHANGED <<genres, books, bookinstances, nextId, pending>>

author_update_get(id) ==
  /\ op' = "author_update_get"
  /\ res' = IF id \notin DOMAIN authors
            THEN <<NotFound>>
            ELSE <<Render("author-form", [title |-> "Update Author", errors |-> Null])>>
  /\ UNCHANGED <<store, nextId, pending>>

author_update_post(id, body) ==
  LET v      == AuthorChecked[body]
      author == [_id |-> id] @@ NewAuthor(v.body)
  IN /\ op' = "author_update_post"
     /\ IF ~IsEmpty(v.errors)
        THEN /\ res' = <<Render("author-form",
                                [title |-> "Update Author", author |-> author,
                                 errors |-> v.errors])>>
             /\ UNCHANGED <<store, nextId, pending>>
        ELSE /\ authors' = Update(authors, id, author, AuthorPaths(author))
             /\ res' = <<Redirect(AuthorUrl(id))>>
             /\ UNCHANGED <<genres, books, bookinstances, nextId, pending>>

\* ----------------------------------------------------------------- genres

\* Genre.findOne({name}).collation({locale: "en", strength: 2}): the
\* documents one of which it returns.
GenresNamed(name) == {g \in DOMAIN genres : CollationEqual(genres[g].name, name)}

genre_list ==
  /\ op' = "genre_list"
  /\ res' = <<Render("genre-list",
                     [title |-> "Genre List",
                      list_genres |-> SortBy(genres, DOMAIN genres, "name")])>>
  /\ UNCHANGED <<store, nextId, pending>>

genre_detail(id) ==
  /\ op' = "genre_detail"
  /\ res' = IF id \notin DOMAIN genres
            THEN <<NotFound>>
            ELSE <<Render("genre-detail",
                          [title |-> "Genre Detail",
                           genre |-> Doc(genres, id),
                           genre_books |-> IdSeq(BooksInGenre(id))])>>
  /\ UNCHANGED <<store, nextId, pending>>

genre_create_get ==
  /\ op' = "genre_create_get"
  /\ res' = <<Render("genre-form", [title |-> "Create Genre", errors |-> Null])>>
  /\ UNCHANGED <<store, nextId, pending>>

genre_create_post(body) ==
  LET v     == GenreChecked[body]
      genre == [name |-> v.body.name]
  IN /\ op' = "genre_create_post"
     /\ IF ~IsEmpty(v.errors)
        THEN /\ res' = <<Render("genre-form",
                                [title |-> "Create Genre", genre |-> genre,
                                 errors |-> v.errors])>>
             /\ UNCHANGED <<store, nextId, pending>>
        ELSE IF GenresNamed(v.body.name) # {}
        THEN /\ \E genreExists \in GenresNamed(v.body.name) :
                   res' = <<Redirect(GenreUrl(genreExists))>>
             /\ UNCHANGED <<store, nextId, pending>>
        ELSE IF ~GenreSchemaAccepts(genre)
        THEN /\ res' = <<Thrown>>
             /\ UNCHANGED <<store, nextId, pending>>
        ELSE /\ nextId <= MaxId
             /\ genres' = Insert(genres, nextId, genre)
             /\ nextId' = nextId + 1
             /\ res' = <<Redirect(<<"catalog/genres">>)>>
             /\ UNCHANGED <<authors, books, bookinstances, pending>>

genre_delete_get(id, ok) ==
  LET found == id \in DOMAIN genres
  IN /\ ok \in RenderOutcomes(found)
     /\ op' = "genre_delete_get"
     /\ res' = (IF found THEN <<>> ELSE <<Redirect(<<"/catalog/genres">>)>>)
               \o RenderCall("genre-delete",
                             [title |-> "Delete Genre",
                              genre |-> Doc(genres, id),
                              genre_books |-> IdSeq(BooksInGenre(id))],
                             ok, ~found)
     /\ UNCHANGED <<store, nextId, pending>>

genre_delete_post(id, bodyid, ok) ==
  /\ op' = "genre_delete_post"
  /\ IF NonEmpty(BooksInGenre(id))
     THEN /\ ok \in RenderOutcomes(id \in DOMAIN genres)
          /\ res' = RenderCall("genre-delete",
                               [title |-> "Delete Genre",
                                genre |-> Doc(genres, id),
                                genre_books |-> IdSeq(BooksInGenre(id))],
                               ok, FALSE)
          /\ UNCHANGED <<store, nextId, pending>>
     ELSE /\ ok
          /\ genres' = Remove(genres, bodyid)
          /\ res' = <<Redirect(<<"/catalog/genres">>)>>
          /\ UNCHANGED <<authors, books, bookinstances, nextId, pending>>

genre_update_get(id) ==
  /\ op' = "genre_update_get"
  /\ res' = IF id \notin DOMAIN genres
            THEN <<NotFound>>
            ELSE <<Render("genre-form",
                          [title |-> "Update Genre", genre |-> Doc(genres, id)])>>
  /\ UNCHANGED <<store, nextId, pending>>

genre_update_post(id, body) ==
  LET v     == GenreChecked[body]
      genre == [_id |-> id, name |-> v.body.name]
  IN /\ op' = "genre_update_post"
     /\ IF ~IsEmpty(v.errors)
        THEN /\ res' = <<Render("genre-form",
                                [title |-> "Update Genre", genre |-> genre,
                                 errors |-> v.errors])>>
             /\ UNCHANGED <<store, nextId, pending>>
        ELSE /\ genres' = Update(genres, id, genre, {"name"})
             /\ res' = <<Redirect(GenreUrl(id))>>
             /\ UNCHANGED <<authors, books, bookinstances, nextId, pending>>

\* ------------------------------------------------------------------ books

\* new Book({...}) from the sanitized body: the references cast to ObjectIds.
NewBook(b) ==
  [title   |-> b.title,
   author  |-> CastObjectId(b.author),
   summary |-> b.summary,
   isbn    |-> b.isbn,
   genre   |-> [i \in DOMAIN b.genre |-> CastObjectId(b.genre[i])]]

\* The paths a Book candidate defines.
BookPaths(b) ==
  {"title", "summary", "isbn", "genre"} \cup (IF b.author # 0 THEN {"author"} ELSE {})

\* "Mark our selected genres as checked": every Genre, with its mark.
CheckedGenres(selected) == [g \in DOMAIN genres |-> g \in selected]

book_list ==
  /\ op' = "book_list"
  /\ res' = <<Render("book-list",
                     [title |-> "Book List",
                      book_list |-> SortBy(books, DOMAIN books, "title")])>>
  /\ UNCHANGED <<store, nextId, pending>>

book_detail(id) ==
  /\ op' = "book_detail"
  /\ res' = IF id \notin DOMAIN books
            THEN <<NotFound>>
            ELSE <<Render("book-detail",
                          [title |-> books[id].title,
                           book |-> Doc(books, id),
                           book_instances |-> IdSeq(InstancesOfBook(id))])>>
  /\ UNCHANGED <<store, nextId, pending>>

book_create_get ==
  /\ op' = "book_create_get"
  /\ res' = <<Render("book-form",
                     [title |-> "Create Book",
                      authors |-> IdSeq(DOMAIN authors),
                      genres |-> CheckedGenres({}),
                      errors |-> Null])>>
  /\ UNCHANGED <<store, nextId, pending>>

book_create_post(body) ==
  LET v    == BookChecked[body]
      book == NewBook(v.body)
  IN /\ op' = "book_create_post"
     /\ IF ~IsEmpty(v.errors)
        THEN /\ res' = <<Render("book-form",
                                [ttitle |-> "Create Book",
                                 authors |-> IdSeq(DOMAIN authors),
                                 genres |-> CheckedGenres(Range(book.genre)),
                                 book |-> book,
                                 errors |-> v.errors])>>
             /\ UNCHANGED <<store, nextId, pending>>
        ELSE /\ nextId <= MaxId
             /\ books' = Insert(books, nextId, book)
             /\ nextId' = nextId + 1
             /\ res' = <<Redirect(BookUrl(nextId))>>
             /\ UNCHANGED <<authors, genres, bookinstances, pending>>

book_delete_get(id, ok) ==
  LET found == id \in DOMAIN books
  IN /\ ok \in RenderOutcomes(found)
     /\ op' = "book_delete_get"
     /\ res' = (IF found THEN <<>> ELSE <<Redirect(<<"/catalog/books">>)>>)
               \o RenderCall("book-delete",
                             [title |-> "Remove Book",
                              book |-> Doc(books, id),
                              book_instances |-> IdSeq(InstancesOfBook(id)),
                              errors |-> Null],
                             ok, ~found)
     /\ UNCHANGED <<store, nextId, pending>>

\* With no Book under the path identifier the handler redirects and goes
\* on: it renders, or removes and redirects a second time, which throws.
book_delete_post(id, bodyid, ok) ==
  LET found == id \in DOMAIN books
      first == IF found THEN <<>> ELSE <<Redirect(<<"/catalog/books">>)>>
  IN /\ op' = "book_delete_post"
     /\ IF NonEmpty(InstancesOfBook(id))
        THEN /\ ok \in RenderOutcomes(found)
             /\ res' = first \o RenderCall("book-delete",
                                           [title |-> "Remove Book",
                                            book |-> Doc(books, id),
                                            book_instances |-> IdSeq(InstancesOfBook(id)),
                                            errors |-> Null],
                                           ok, ~found)
             /\ UNCHANGED <<store, nextId, pending>>
        ELSE /\ ok
             /\ books' = Remove(books, bodyid)
             /\ res' = first \o (IF found THEN <<Redirect(<<"/catalog/books">>)>>
                                          ELSE <<Thrown>>)
             /\ UNCHANGED <<authors, genres, bookinstances, nextId, pending>>

book_update_get(id) ==
  /\ op' = "book_update_get"
  /\ res' = IF id \notin DOMAIN books
            THEN <<NotFound>>
            ELSE <<Render("book-form",
                          [title |-> "Update Book",
                           authors |-> IdSeq(DOMAIN authors),
                           genres |-> CheckedGenres(Range(books[id].genre)),
                           book |-> Doc(books, id),
                           errors |-> Null])>>
  /\ UNCHANGED <<store, nextId, pending>>

\* thebook is the document findByIdAndUpdate found, or null, and then
\* thebook.url throws.
book_update_post(id, body) ==
  LET v    == BookChecked[body]
      book == [_id |-> id] @@ NewBook(v.body)
  IN /\ op' = "book_update_post"
     /\ IF ~IsEmpty(v.errors)
        THEN /\ res' = <<Render("book-form",
                                [title |-> "Update Book",
                                 authors |-> IdSeq(DOMAIN authors),
                                 genres |-> CheckedGenres(Range(book.genre)),
                                 book |-> book,
                                 errors |-> v.errors])>>
             /\ UNCHANGED <<store, nextId, pending>>
        ELSE /\ books' = Update(books, id, book, BookPaths(book))
             /\ res' = IF id \in DOMAIN books THEN <<Redirect(BookUrl(id))>> ELSE <<Thrown>>
             /\ UNCHANGED <<authors, genres, bookinstances, nextId, pending>>

\* ---------------------------------------------------------- bookinstances

\* BookInstanceSchema: the enum of status, and the default of due_back.
StatusEnum == {<<"Available">>, <<"Maintenance">>, <<"Loaned">>, <<"Reserved">>}

Now == <<"Date", "now">>

\* The validation save() runs against BookInstanceSchema: book and imprint
\* required, status required and of the enum.
BookInstanceSchemaAccepts(bi) ==
  /\ bi.book # 0
  /\ bi.imprint # Empty
  /\ bi.status \in StatusEnum

\* new BookInstance({...}) from the sanitized body.
NewBookInstance(b) ==
  [book     |-> CastObjectId(b.book),
   imprint  |-> b.imprint,
   status   |-> b.status,
   due_back |-> IF b.due_back = Undefined THEN Now ELSE CastDate(b.due_back)]

\* The paths a BookInstance candidate defines.
BookInstancePaths(bi) ==
  {"imprint", "status", "due_back"} \cup (IF bi.book # 0 THEN {"book"} ELSE {})

\* The re-rendering of the form after a failed validation; reading
\* bookInstance.book._id throws when the book path is unset.
BookInstanceFormAgain(title, bi, errors) ==
  IF bi.book = 0
  THEN <<Thrown>>
  ELSE <<Render("bookinstance-form",
                [title |-> title,
                 book_list |-> IdSeq(DOMAIN books),
                 selected_book |-> bi.book,
                 errors |-> errors,
                 bookinstance |-> bi])>>

bookinstance_list ==
  /\ op' = "bookinstance_list"
  /\ res' = <<Render("bookinstance-list",
                     [title |-> "Book Instance List",
                      bookinstance_list |-> IdSeq(DOMAIN bookinstances)])>>
  /\ UNCHANGED <<store, nextId, pending>>

bookinstance_detail(id) ==
  /\ op' = "bookinstance_detail"
  /\ res' = IF id \notin DOMAIN bookinstances
            THEN <<NotFound>>
            ELSE <<Render("bookinstance-detail",
                          [bookinstance |-> Doc(bookinstances, id)])>>
  /\ UNCHANGED <<store, nextId, pending>>

bookinstance_create_get ==
  /\ op' = "bookinstance_create_get"
  /\ res' = <<Render("bookinstance-form",
                     [title |-> "Create BookInstance",
                      book_list |-> IdSeq(DOMAIN books),
                      errors |-> Null])>>
  /\ UNCHANGED <<store, nextId, pending>>

bookinstance_create_post(body) ==
  LET v            == BookInstanceChecked[body]
      bookInstance == NewBookInstance(v.body)
  IN /\ op' = "bookinstance_create_post"
     /\ IF ~IsEmpty(v.errors)
        THEN /\ res' = BookInstanceFormAgain("Create BookInstance", bookInstance, v.errors)
             /\ UNCHANGED <<store, nextId, pending>>
        ELSE IF ~BookInstanceSchemaAccepts(bookInstance)
        THEN /\ res' = <<Thrown>>
             /\ UNCHANGED <<store, nextId, pending>>
        ELSE /\ nextId <= MaxId
             /\ bookinstances' = Insert(bookinstances, nextId, bookInstance)
             /\ nextId' = nextId + 1
             /\ res' = <<Redirect(BookInstanceUrl(nextId))>>
             /\ UNCHANGED <<authors, genres, books, pending>>

bookinstance_delete_get(id, ok) ==
  LET found == id \in DOMAIN bookinstances
  IN /\ ok \in RenderOutcomes(found)
     /\ op' = "bookinstance_delete_get"
     /\ res' = (IF found THEN <<>> ELSE <<Redirect(<<"/catalog/bookinstances">>)>>)
               \o RenderCall("bookinstance-delete",
                             [title |-> "Delete BookInstance",
                              bookinstance |-> Doc(bookinstances, id)],
                             ok, ~found)
     /\ UNCHANGED <<store, nextId, pending>>

\* The path identifier is not read.
bookinstance_delete_post(id, bodyid) ==
  /\ id \in Ids
  /\ op' = "bookinstance_delete_post"
  /\ bookinstances' = Remove(bookinstances, bodyid)
  /\ res' = <<Redirect(<<"/catalog/bookinstances">>)>>
  /\ UNCHANGED <<authors, genres, books, nextId, pending>>

\* bookInstance.book is populated: null when no Book has the identifier,
\* and then reading its _id throws.
bookinstance_update_get(id) ==
  /\ op' = "bookinstance_update_get"
  /\ res' = IF id \notin DOMAIN bookinstances
            THEN <<NotFound>>
            ELSE IF bookinstances[id].book \notin DOMAIN books
            THEN <<Thrown>>
            ELSE <<Render("bookinstance-form",
                          [title |-> "Update BookInstance",
                           book_list |-> IdSeq(DOMAIN books),
                           selected_book |-> bookinstances[id].book,
                           bookinstance |-> Doc(bookinstances, id)])>>
  /\ UNCHANGED <<store, nextId, pending>>

bookinstance_update_post(id, body) ==
  LET v            == BookInstanceChecked[body]
      bookInstance == [_id |-> id] @@ NewBookInstance(v.body)
  IN /\ op' = "bookinstance_update_post"
     /\ IF ~IsEmpty(v.errors)
        THEN /\ res' = BookInstanceFormAgain("Update BookInstance", bookInstance, v.errors)
             /\ UNCHANGED <<store, nextId, pending>>
        ELSE /\ bookinstances' = Update(bookinstances, id, bookInstance,
                                        BookInstancePaths(bookInstance))
             /\ res' = <<Redirect(BookInstanceUrl(id))>>
             /\ UNCHANGED <<authors, genres, books, nextId, pending>>

\* ------------------------------------------------------------------ index

\* The home page: five counts, the last two both of the Author collection.
index ==
  /\ op' = "index"
  /\ res' = <<Render("index",
                     [title |-> "Local Library Home",
                      book_count |-> Cardinality(DOMAIN books),
                      book_instance_count |-> Cardinality(DOMAIN bookinstances),
                      book_instance_available_count |->
                        Cardinality({i \in DOMAIN bookinstances :
                                       bookinstances[i].status = <<"Available">>}),
                      author_count |-> Cardinality(DOMAIN authors),
                      genre_count |-> Cardinality(DOMAIN authors)])>>
  /\ UNCHANGED <<store, nextId, pending>>

\* ----------------------------------------------------------- interleaving
\*
\* A delete-submit awaits its reads, and later awaits findByIdAndRemove:
\* between the two any other request may run.  Begin is the handler up to
\* the second await on the path that removes, End is the rest.

Suspended(handler, id, bodyid, found) ==
  [handler |-> handler, id |-> id, bodyid |-> bodyid, found |-> found]

author_delete_post_begin(id, authorid) ==
  /\ ~NonEmpty(BooksByAuthor(id))
  /\ Cardinality(pending) < MaxPending
  /\ pending' = pending \cup {Suspended("author_delete_post", id, authorid,
                                        id \in DOMAIN authors)}
  /\ UNCHANGED <<store, nextId, op, res>>

author_delete_post_end(r) ==
  /\ r \in pending /\ r.handler = "author_delete_post"
  /\ pending' = pending \ {r}
  /\ authors' = Remove(authors, r.bodyid)
  /\ op' = "author_delete_post"
  /\ res' = <<Redirect(<<"/catalog/authors">>)>>
  /\ UNCHANGED <<genres, books, bookinstances, nextId>>

genre_delete_post_begin(id, bodyid) ==
  /\ ~NonEmpty(BooksInGenre(id))
  /\ Cardinality(pending) < MaxPending
  /\ pending' = pending \cup {Suspended("genre_delete_post", id, bodyid,
                                        id \in DOMAIN genres)}
  /\ UNCHANGED <<store, nextId, op, res>>

genre_delete_post_end(r) ==
  /\ r \in pending /\ r.handler = "genre_delete_post"
  /\ pending' = pending \ {r}
  /\ genres' = Remove(genres, r.bodyid)
  /\ op' = "genre_delete_post"
  /\ res' = <<Redirect(<<"/catalog/genres">>)>>
  /\ UNCHANGED <<authors, books, bookinstances, nextId>>

\* With no Book under the path identifier the first redirect is sent
\* before the suspension, and the second one throws.
book_delete_post_begin(id, bodyid) ==
  /\ ~NonEmpty(InstancesOfBook(id))
  /\ Cardinality(pending) < MaxPending
  /\ pending' = pending \cup {Suspended("book_delete_post", id, bodyid,
                                        id \in DOMAIN books)}
  /\ UNCHANGED <<store, nextId, op, res>>

book_delete_post_end(r) ==
  /\ r \in pending /\ r.handler = "book_delete_post"
  /\ pending' = pending \ {r}
  /\ books' = Remove(books, r.bodyid)
  /\ op' = "book_delete_post"
  /\ res' = IF r.found THEN <<Redirect(<<"/catalog/books">>)>>
                       ELSE <<Redirect(<<"/catalog/books">>), Thrown>>
  /\ UNCHANGED <<authors, genres, bookinstances, nextId>>

\* ---------------------------------------------------------- specification

Init ==
  /\ authors = <<>>
  /\ genres = <<>>
  /\ books = <<>>
  /\ bookinstances = <<>>
  /\ nextId = 1
  /\ op = "none"
  /\ res = <<>>
  /\ pending = {}

\* A step is one request: the submissions of the forms, then the reads.
Next ==
  \/ \E body \in AuthorBodies : author_create_post(body)
  \/ \E id \in Ids, authorid \in Ids, ok \in BOOLEAN : author_delete_post(id, authorid, ok)
  \/ \E id \in Ids, body \in AuthorBodies : author_update_post(id, body)
  \/ \E body \in GenreBodies : genre_create_post(body)
  \/ \E id \in Ids, bodyid \in Ids, ok \in BOOLEAN : genre_delete_post(id, bodyid, ok)
  \/ \E id \in Ids, body \in GenreBodies : genre_update_post(id, body)
  \/ \E body \in BookBodies : book_create_post(body)
  \/ \E id \in Ids, bodyid \in Ids, ok \in BOOLEAN : book_delete_post(id, bodyid, ok)
  \/ \E id \in Ids, body \in BookBodies : book_update_post(id, body)
  \/ \E body \in BookInstanceBodies : bookinstance_create_post(body)
  \/ \E id \in Ids, bodyid \in Ids : bookinstance_delete_post(id, bodyid)
  \/ \E id \in Ids, body \in BookInstanceBodies : bookinstance_update_post(id, body)
  \/ index
  \/ author_list
  \/ \E id \in Ids : author_detail(id)
  \/ author_create_get
  \/ \E id \in Ids, ok \in BOOLEAN : author_delete_get(id, ok)
  \/ \E id \in Ids : author_update_get(id)
  \/ genre_list
  \/ \E id \in Ids : genre_detail(id)
  \/ genre_create_get
  \/ \E id \in Ids, ok \in BOOLEAN : genre_delete_get(id, ok)
  \/ \E id \in Ids : genre_update_get(id)
  \/ book_list
  \/ \E id \in Ids : book_detail(id)
  \/ book_create_get
  \/ \E id \in Ids, ok \in BOOLEAN : book_delete_get(id, ok)
  \/ \E id \in Ids : book_update_get(id)
  \/ bookinstance_list
  \/ \E id \in Ids : bookinstance_detail(id)
  \/ bookinstance_create_get
  \/ \E id \in Ids, ok \in BOOLEAN : bookinstance_delete_get(id, ok)
  \/ \E id \in Ids : bookinstance_update_get(id)

Spec == Init /\ [][Next]_vars

\* Requests that overlap: the submissions that store or change a document,
\* and the delete-submits in their two steps, each for the identifier of
\* the page its form is on.
NextInterleaved ==
  \/ \E body \in AuthorBodies : author_create_post(body)
  \/ \E body \in GenreBodies : genre_create_post(body)
  \/ \E body \in BookBodies : book_create_post(body)
  \/ \E id \in Ids, body \in BookBodies : book_update_post(id, body)
  \/ \E body \in BookInstanceBodies : bookinstance_create_post(body)
  \/ \E id \in Ids, body \in BookInstanceBodies : bookinstance_update_post(id, body)
  \/ \E id \in Ids : author_delete_post_begin(id, id)
  \/ \E r \in pending : author_delete_post_end(r)
  \/ \E id \in Ids : genre_delete_post_begin(id, id)
  \/ \E r \in pending : genre_delete_post_end(r)
  \/ \E id \in Ids : book_delete_post_begin(id, id)
  \/ \E r \in pending : book_delete_post_end(r)

SpecInterleaved == Init /\ [][NextInterleaved]_vars

\* ------------------------------------------------------------- properties
\*
\* A property of a handler is a property of the steps that are calls of
\* it: each is stated for the step whose op' names the handler, for every
\* request (identifiers, body, outcome of the view) the step may be the
\* call for.

\* What the request was answered with: what the handler did, but for the
\* logging.
IsAnswer(x) == x.kind # "log"

Answers(r) == SelectSeq(r, IsAnswer)

\* The whole answer is one redirect, to the location `to`.
Redirected(r, to) ==
  Len(Answers(r)) = 1 /\ r[1].kind = "redirect" /\ r[1].to = to

\* The whole answer is one rendering, of `view`.
Rendered(r, view) ==
  Len(Answers(r)) = 1 /\ r[1].kind = "render" /\ r[1].view = view

\* The whole answer is one error of this status given to the error handler.
Failed(r, status) ==
  Len(Answers(r)) = 1 /\ r[1].kind = "error" /\ r[1].status = status

\* Collection c2 is c with one document more, under the new identifier n.
CreatedAt(c, c2, n) ==
  /\ n \notin DOMAIN c
  /\ DOMAIN c2 = DOMAIN c \cup {n}
  /\ \A x \in DOMAIN c : c2[x] = c[x]

\* Some stored Genre has this name up to case.
SameNameUpToCase(name) == \E g \in DOMAIN genres : Lower(genres[g].name) = Lower(name)

\* C1: a delete-submit for an Author, a Genre or a Book that exists and has
\* at least one dependent removes no document of its kind, and the answer is
\* the delete confirmation view of that entity, rendered again.
C1_GuardedDeleteRemovesNothing ==
  [][/\ (op' = "author_delete_post") => \A id \in Ids, authorid \in Ids, ok \in BOOLEAN :
          (author_delete_post(id, authorid, ok) /\ id \in DOMAIN authors /\ BooksByAuthor(id) # {})
            => (authors' = authors /\ Rendered(res', "author-delete")
                  /\ res'[1].ctx.author._id = id)
     /\ (op' = "genre_delete_post") => \A id \in Ids, bodyid \in Ids, ok \in BOOLEAN :
          (genre_delete_post(id, bodyid, ok) /\ id \in DOMAIN genres /\ BooksInGenre(id) # {})
            => (genres' = genres /\ Rendered(res', "genre-delete")
                  /\ res'[1].ctx.genre._id = id)
     /\ (op' = "book_delete_post") => \A id \in Ids, bodyid \in Ids, ok \in BOOLEAN :
          (book_delete_post(id, bodyid, ok) /\ id \in DOMAIN books /\ InstancesOfBook(id) # {})
            => (books' = books /\ Rendered(res', "book-delete")
                  /\ res'[1].ctx.book._id = id)]_vars

\* An Author that has a Book was asked to be deleted, is still stored, and
\* the confirmation view lists the Book.
C1_Witness ==
  /\ op = "author_delete_post"
  /\ Rendered(res, "author-delete")
  /\ res[1].ctx.author._id \in DOMAIN authors
  /\ res[1].ctx.author_books # <<>>
  /\ BooksByAuthor(res[1].ctx.author._id) # {}

\* C2: a delete-submit for an existing entity that has no dependent removes
\* the document the request path identifies and no other, changes no other
\* document of any kind, and redirects to the list of the kind.
C2_DeleteRemovesTheEntity ==
  [][/\ (op' = "author_delete_post") => \A id \in Ids, authorid \in Ids :
          (author_delete_post(id, authorid, TRUE)
             /\ id \in DOMAIN authors /\ BooksByAuthor(id) = {})
            => (authors' = Remove(authors, id)
                  /\ UNCHANGED <<genres, books, bookinstances>>
                  /\ Redirected(res', <<"/catalog/authors">>))
     /\ (op' = "genre_delete_post") => \A id \in Ids, bodyid \in Ids :
          (genre_delete_post(id, bodyid, TRUE)
             /\ id \in DOMAIN genres /\ BooksInGenre(id) = {})
            => (genres' = Remove(genres, id)
                  /\ UNCHANGED <<authors, books, bookinstances>>
                  /\ Redirected(res', <<"/catalog/genres">>))
     /\ (op' = "book_delete_post") => \A id \in Ids, bodyid \in Ids :
          (book_delete_post(id, bodyid, TRUE)
             /\ id \in DOMAIN books /\ InstancesOfBook(id) = {})
            => (books' = Remove(books, id)
                  /\ UNCHANGED <<authors, genres, bookinstances>>
                  /\ Redirected(res', <<"/catalog/books">>))
     /\ (op' = "bookinstance_delete_post") => \A id \in Ids, bodyid \in Ids :
          (bookinstance_delete_post(id, bodyid)
             /\ id \in DOMAIN bookinstances)
            => (bookinstances' = Remove(bookinstances, id)
                  /\ UNCHANGED <<authors, genres, books>>
                  /\ Redirected(res', <<"/catalog/bookinstances">>))]_vars

\* C3: a Genre create-submit whose sanitized name equals, up to case, the
\* name of a stored Genre adds no document, and the answer is a redirect to
\* the detail location of a stored Genre of that name.
C3_SameNameAddsNothing ==
  [][(op' = "genre_create_post") => \A body \in GenreBodies :
       LET name == Escape(Trim(ToStr(body.name)))
       IN (genre_create_post(body) /\ SameNameUpToCase(name))
            => /\ UNCHANGED <<store, nextId>>
               /\ \E g \in DOMAIN genres :
                    /\ Lower(genres[g].name) = Lower(name)
                    /\ Redirected(res', <<"/catalog/genre/", g>>)]_vars

\* A Genre create-submit was answered with a redirect to a stored Genre.
C3_Witness ==
  /\ op = "genre_create_post"
  /\ \E g \in DOMAIN genres : Redirected(res, <<"/catalog/genre/", g>>)

C5_CreateRedirectsToDetail ==
  [][/\ (op' = "author_create_post") => \A body \in AuthorBodies :
          (AuthorChecked[body].errors = <<>> /\ author_create_post(body))
            => \E n \in Ids : CreatedAt(authors, authors', n)
                              /\ Redirected(res', AuthorUrl(n))
     /\ (op' = "book_create_post") => \A body \in BookBodies :
          (BookChecked[body].errors = <<>> /\ book_create_post(body))
            => \E n \in Ids : CreatedAt(books, books', n)
                              /\ Redirected(res', BookUrl(n))
     /\ (op' = "bookinstance_create_post") => \A body \in BookInstanceBodies :
          (BookInstanceChecked[body].errors = <<>> /\ bookinstance_create_post(body)
             /\ Escape(ToStr(body.status)) \in StatusEnum)
            => \E n \in Ids : CreatedAt(bookinstances, bookinstances', n)
                              /\ Redirected(res', <<"/catalog/bookinstance/", n>>)]_vars

\* C5 as the code has it: such a create-submit stores exactly one new
\* document of its kind and changes no other collection; for a Book and a
\* BookInstance the answer is a redirect to the url of the new document,
\* for an Author it is a redirect to the Author list, /catalog/authors.
C5_CreateStoresOneAndRedirects ==
  [][/\ (op' = "author_create_post") => \A body \in AuthorBodies :
          (AuthorChecked[body].errors = <<>> /\ author_create_post(body))
            => /\ \E n \in Ids : CreatedAt(authors, authors', n)
               /\ UNCHANGED <<genres, books, bookinstances>>
               /\ Redirected(res', <<"/catalog/authors">>)
     /\ (op' = "book_create_post") => \A body \in BookBodies :
          (BookChecked[body].errors = <<>> /\ book_create_post(body))
            => /\ \E n \in Ids : CreatedAt(books, books', n)
                                 /\ Redirected(res', BookUrl(n))
               /\ UNCHANGED <<authors, genres, bookinstances>>
     /\ (op' = "bookinstance_create_post") => \A body \in BookInstanceBodies :
          (BookInstanceChecked[body].errors = <<>> /\ bookinstance_create_post(body)
             /\ Escape(ToStr(body.status)) \in StatusEnum)
            => /\ \E n \in Ids : CreatedAt(bookinstances, bookinstances', n)
                                 /\ Redirected(res', <<"/catalog/bookinstance/", n>>)
               /\ UNCHANGED <<authors, genres, books>>]_vars

\* An Author create-submit has stored an Author and was answered with the
\* redirect to the Author list.
C5_Witness ==
  /\ op = "author_create_post"
  /\ Redirected(res, <<"/catalog/authors">>)
  /\ authors # <<>>

\* C6: a create-submit or update-submit of any kind whose validation yields
\* a field error leaves every collection as it was; an Author submission
\* whose family_name is empty yields "Family name must be specified.".
C6_InvalidSubmissionChangesNothing ==
  [][/\ (op' = "author_create_post") => \A body \in AuthorBodies :
          (AuthorChecked[body].errors # <<>> /\ author_create_post(body))
            => UNCHANGED <<store, nextId>>
     /\ (op' = "author_create_post") => \A body \in AuthorBodies :
          (author_create_post(body) /\ Trim(ToStr(body.family_name)) = Empty)
            => /\ UNCHANGED <<store, nextId>>
               /\ Rendered(res', "author-form")
               /\ \E i \in DOMAIN res'[1].ctx.errors :
                    res'[1].ctx.errors[i]
                      = FieldError("family_name", "Family name must be specified.")
     /\ (op' = "author_update_post") => \A id \in Ids, body \in AuthorBodies :
          (AuthorChecked[body].errors # <<>> /\ author_update_post(id, body))
            => UNCHANGED <<store, nextId>>
     /\ (op' = "genre_create_post") => \A body \in GenreBodies :
          (GenreChecked[body].errors # <<>> /\ genre_create_post(body))
            => UNCHANGED <<store, nextId>>
     /\ (op' = "genre_update_post") => \A id \in Ids, body \in GenreBodies :
          (GenreChecked[body].errors # <<>> /\ genre_update_post(id, body))
            => UNCHANGED <<store, nextId>>
     /\ (op' = "book_create_post") => \A body \in BookBodies :
          (BookChecked[body].errors # <<>> /\ book_create_post(body))
            => UNCHANGED <<store, nextId>>
     /\ (op' = "book_update_post") => \A id \in Ids, body \in BookBodies :
          (BookChecked[body].errors # <<>> /\ book_update_post(id, body))
            => UNCHANGED <<store, nextId>>
     /\ (op' = "bookinstance_create_post") => \A body \in BookInstanceBodies :
          (BookInstanceChecked[body].errors # <<>> /\ bookinstance_create_post(body))
            => UNCHANGED <<store, nextId>>
     /\ (op' = "bookinstance_update_post") => \A id \in Ids, body \in BookInstanceBodies :
          (BookInstanceChecked[body].errors # <<>> /\ bookinstance_update_post(id, body))
            => UNCHANGED <<store, nextId>>]_vars

\* An Author submission was refused for its family name while an Author
\* is stored.
C6_Witness ==
  /\ op \in {"author_create_post", "author_update_post"}
  /\ Rendered(res, "author-form")
  /\ \E i \in DOMAIN res[1].ctx.errors :
       res[1].ctx.errors[i] = FieldError("family_name", "Family name must be specified.")
  /\ authors # <<>>

\* C7: a create-submit or update-submit of any kind that fails validation
\* is answered with the form it came from, rendered again with the list of
\* the field errors, and with nothing else: no error reaches the error
\* handler.
C7_InvalidSubmissionRendersForm ==
  [][/\ (op' = "author_create_post") => \A body \in AuthorBodies :
          (AuthorChecked[body].errors # <<>> /\ author_create_post(body))
            => (Rendered(res', "author-form")
                  /\ res'[1].ctx.errors = AuthorChecked[body].errors)
     /\ (op' = "author_update_post") => \A id \in Ids, body \in AuthorBodies :
          (AuthorChecked[body].errors # <<>> /\ author_update_post(id, body))
            => (Rendered(res', "author-form")
                  /\ res'[1].ctx.errors = AuthorChecked[body].errors)
     /\ (op' = "genre_create_post") => \A body \in GenreBodies :
          (GenreChecked[body].errors # <<>> /\ genre_create_post(body))
            => (Rendered(res', "genre-form")
                  /\ res'[1].ctx.errors = GenreChecked[body].errors)
     /\ (op' = "genre_update_post") => \A id \in Ids, body \in GenreBodies :
          (GenreChecked[body].errors # <<>> /\ genre_update_post(id, body))
            => (Rendered(res', "genre-form")
                  /\ res'[1].ctx.errors = GenreChecked[body].errors)
     /\ (op' = "book_create_post") => \A body \in BookBodies :
          (BookChecked[body].errors # <<>> /\ book_create_post(body))
            => (Rendered(res', "book-form")
                  /\ res'[1].ctx.errors = BookChecked[body].errors)
     /\ (op' = "book_update_post") => \A id \in Ids, body \in BookBodies :
          (BookChecked[body].errors # <<>> /\ book_update_post(id, body))
            => (Rendered(res', "book-form")
                  /\ res'[1].ctx.errors = BookChecked[body].errors)
     /\ (op' = "bookinstance_create_post") => \A body \in BookInstanceBodies :
          (BookInstanceChecked[body].errors # <<>> /\ bookinstance_create_post(body))
            => (Rendered(res', "bookinstance-form")
                  /\ res'[1].ctx.errors = BookInstanceChecked[body].errors)
     /\ (op' = "bookinstance_update_post") => \A id \in Ids, body \in BookInstanceBodies :
          (BookInstanceChecked[body].errors # <<>> /\ bookinstance_update_post(id, body))
            => (Rendered(res', "bookinstance-form")
                  /\ res'[1].ctx.errors = BookInstanceChecked[body].errors)]_vars

\* C8: the detail and the update-get of a Book, Author, Genre or
\* BookInstance, called with an identifier that no stored document has,
\* give an error of status 404 to the error handler and render nothing.
C8_AbsentIsNotFound ==
  [][/\ (op' = "author_detail") => \A id \in Ids :
          (author_detail(id) /\ id \notin DOMAIN authors) => Failed(res', 404)
     /\ (op' = "author_update_get") => \A id \in Ids :
          (author_update_get(id) /\ id \notin DOMAIN authors) => Failed(res', 404)
     /\ (op' = "genre_detail") => \A id \in Ids :
          (genre_detail(id) /\ id \notin DOMAIN genres) => Failed(res', 404)
     /\ (op' = "genre_update_get") => \A id \in Ids :
          (genre_update_get(id) /\ id \notin DOMAIN genres) => Failed(res', 404)
     /\ (op' = "book_detail") => \A id \in Ids :
          (book_detail(id) /\ id \notin DOMAIN books) => Failed(res', 404)
     /\ (op' = "book_update_get") => \A id \in Ids :
          (book_update_get(id) /\ id \notin DOMAIN books) => Failed(res', 404)
     /\ (op' = "bookinstance_detail") => \A id \in Ids :
          (bookinstance_detail(id) /\ id \notin DOMAIN bookinstances) => Failed(res', 404)
     /\ (op' = "bookinstance_update_get") => \A id \in Ids :
          (bookinstance_update_get(id) /\ id \notin DOMAIN bookinstances) => Failed(res', 404)]_vars

\* The update form of a BookInstance was asked for while none is stored,
\* and the answer is the error of status 404.
C8_Witness ==
  /\ op = "bookinstance_update_get"
  /\ Failed(res, 404)
  /\ bookinstances = <<>>

\* C9: the delete-get and the delete-submit of any kind, called with an
\* identifier that no stored document has, answer with a redirect to the
\* list of the kind and with nothing else: no error is raised.
C9_AbsentDeleteRedirects ==
  [][/\ (op' = "author_delete_get") => \A id \in Ids, ok \in BOOLEAN :
          (author_delete_get(id, ok) /\ id \notin DOMAIN authors)
            => Redirected(res', <<"/catalog/authors">>)
     /\ (op' = "author_delete_post") => \A id \in Ids, authorid \in Ids, ok \in BOOLEAN :
          (author_delete_post(id, authorid, ok) /\ id \notin DOMAIN authors)
            => Redirected(res', <<"/catalog/authors">>)
     /\ (op' = "genre_delete_get") => \A id \in Ids, ok \in BOOLEAN :
          (genre_delete_get(id, ok) /\ id \notin DOMAIN genres)
            => Redirected(res', <<"/catalog/genres">>)
     /\ (op' = "genre_delete_post") => \A id \in Ids, bodyid \in Ids, ok \in BOOLEAN :
          (genre_delete_post(id, bodyid, ok) /\ id \notin DOMAIN genres)
            => Redirected(res', <<"/catalog/genres">>)
     /\ (op' = "book_delete_get") => \A id \in Ids, ok \in BOOLEAN :
          (book_delete_get(id, ok) /\ id \notin DOMAIN books)
            => Redirected(res', <<"/catalog/books">>)
     /\ (op' = "book_delete_post") => \A id \in Ids, bodyid \in Ids, ok \in BOOLEAN :
          (book_delete_post(id, bodyid, ok) /\ id \notin DOMAIN books)
            => Redirected(res', <<"/catalog/books">>)
     /\ (op' = "bookinstance_delete_get") => \A id \in Ids, ok \in BOOLEAN :
          (bookinstance_delete_get(id, ok) /\ id \notin DOMAIN bookinstances)
            => Redirected(res', <<"/catalog/bookinstances">>)
     /\ (op' = "bookinstance_delete_post") => \A id \in Ids, bodyid \in Ids :
          (bookinstance_delete_post(id, bodyid) /\ id \notin DOMAIN bookinstances)
            => Redirected(res', <<"/catalog/bookinstances">>)]_vars

C11_GenreNormalized ==
  [][(op' = "book_create_post") => \A body \in BookBodies :
       (BookChecked[body].errors = <<>> /\ book_create_post(body))
         => \E n \in Ids :
              /\ CreatedAt(books, books', n)
              /\ "genre" \in DOMAIN books'[n]
              /\ body.genre.type = "undefined" => books'[n].genre = <<>>
              /\ body.genre.type \notin {"undefined", "array"}
                   => books'[n].genre = <<CastObjectId(body.genre.value[1])>>]_vars

\* A stored Date path holds what was submitted: the Date, or null for the
\* empty string.
SameDate(stored, f) == stored = (IF f \in {Empty, Null} THEN Null ELSE f)

\* C12 as the specification has it: after a create-submit that has stored
\* a document, the document findById finds under the new identifier has
\* the sanitized values submitted in its fields (a reference as its
\* identifier, an empty date as null), and no other value.
C12_RoundTrip ==
  [][/\ (op' = "author_create_post") => \A body \in AuthorBodies :
          (author_create_post(body) /\ authors' # authors)
            => LET F == AuthorChecked[body].body
               IN \E n \in Ids :
                    /\ CreatedAt(authors, authors', n)
                    /\ Doc(authors', n)._id = n
                    /\ Doc(authors', n).first_name = F.first_name
                    /\ Doc(authors', n).family_name = F.family_name
                    /\ SameDate(Doc(authors', n).date_of_birth, F.date_of_birth)
                    /\ SameDate(Doc(authors', n).date_of_death, F.date_of_death)
     /\ (op' = "genre_create_post") => \A body \in GenreBodies :
          (genre_create_post(body) /\ genres' # genres)
            => LET F == GenreChecked[body].body
               IN \E n \in Ids :
                    /\ CreatedAt(genres, genres', n)
                    /\ Doc(genres', n)._id = n
                    /\ Doc(genres', n).name = F.name
     /\ (op' = "book_create_post") => \A body \in BookBodies :
          (book_create_post(body) /\ books' # books)
            => LET F == BookChecked[body].body
               IN \E n \in Ids :
                    /\ CreatedAt(books, books', n)
                    /\ Doc(books', n)._id = n
                    /\ Doc(books', n).title = F.title
                    /\ Doc(books', n).summary = F.summary
                    /\ Doc(books', n).isbn = F.isbn
                    /\ IdString(Doc(books', n).author) = F.author
                    /\ Len(Doc(books', n).genre) = Len(F.genre)
                    /\ \A i \in DOMAIN F.genre :
                         F.genre[i] \in {Empty, IdString(Doc(books', n).genre[i])}
     /\ (op' = "bookinstance_create_post") => \A body \in BookInstanceBodies :
          (bookinstance_create_post(body) /\ bookinstances' # bookinstances)
            => LET F == BookInstanceChecked[body].body
               IN \E n \in Ids :
                    /\ CreatedAt(bookinstances, bookinstances', n)
                    /\ Doc(bookinstances', n)._id = n
                    /\ IdString(Doc(bookinstances', n).book) = F.book
                    /\ Doc(bookinstances', n).imprint = F.imprint
                    /\ Doc(bookinstances', n).status = F.status
                    /\ SameDate(Doc(bookinstances', n).due_back, F.due_back)]_vars

\* C12 as the code has it: the same, but a BookInstance submitted without
\* due_back is stored with the schema's default, the time of creation.
C12_RoundTripWithDefault ==
  [][/\ (op' = "author_create_post") => \A body \in AuthorBodies :
          (author_create_post(body) /\ authors' # authors)
            => LET F == AuthorChecked[body].body
               IN \E n \in Ids :
                    /\ CreatedAt(authors, authors', n)
                    /\ Doc(authors', n)._id = n
                    /\ Doc(authors', n).first_name = F.first_name
                    /\ Doc(authors', n).family_name = F.family_name
                    /\ SameDate(Doc(authors', n).date_of_birth, F.date_of_birth)
                    /\ SameDate(Doc(authors', n).date_of_death, F.date_of_death)
     /\ (op' = "genre_create_post") => \A body \in GenreBodies :
          (genre_create_post(body) /\ genres' # genres)
            => LET F == GenreChecked[body].body
               IN \E n \in Ids :
                    /\ CreatedAt(genres, genres', n)
                    /\ Doc(genres', n)._id = n
                    /\ Doc(genres', n).name = F.name
     /\ (op' = "book_create_post") => \A body \in BookBodies :
          (book_create_post(body) /\ books' # books)
            => LET F == BookChecked[body].body
               IN \E n \in Ids :
                    /\ CreatedAt(books, books', n)
                    /\ Doc(books', n)._id = n
                    /\ Doc(books', n).title = F.title
                    /\ Doc(books', n).summary = F.summary
                    /\ Doc(books', n).isbn = F.isbn
                    /\ IdString(Doc(books', n).author) = F.author
                    /\ Len(Doc(books', n).genre) = Len(F.genre)
                    /\ \A i \in DOMAIN F.genre :
                         F.genre[i] \in {Empty, IdString(Doc(books', n).genre[i])}
     /\ (op' = "bookinstance_create_post") => \A body \in BookInstanceBodies :
          (bookinstance_create_post(body) /\ bookinstances' # bookinstances)
            => LET F == BookInstanceChecked[body].body
               IN \E n \in Ids :
                    /\ CreatedAt(bookinstances, bookinstances', n)
                    /\ Doc(bookinstances', n)._id = n
                    /\ IdString(Doc(bookinstances', n).book) = F.book
                    /\ Doc(bookinstances', n).imprint = F.imprint
                    /\ Doc(bookinstances', n).status = F.status
                    /\ IF F.due_back = Undefined
                       THEN Doc(bookinstances', n).due_back = Now
                       ELSE SameDate(Doc(bookinstances', n).due_back, F.due_back)]_vars

\* A BookInstance is stored with the default due_back.
C12_Witness ==
  /\ op = "bookinstance_create_post"
  /\ \E n \in DOMAIN bookinstances :
       /\ Redirected(res, <<"/catalog/bookinstance/", n>>)
       /\ bookinstances[n].due_back = Now

\* C13: whatever requests overlap, no step removes an Author, Genre or
\* Book that a stored dependent references at the moment of the removal.
C13_NoReferencedRemoval ==
  [][/\ \A a \in DOMAIN authors \ DOMAIN authors' : BooksByAuthor(a) = {}
     /\ \A g \in DOMAIN genres \ DOMAIN genres' : BooksInGenre(g) = {}
     /\ \A b \in DOMAIN books \ DOMAIN books' : InstancesOfBook(b) = {}]_vars

\* C14 as the specification has it: a Book delete-submit for a stored Book
\* (the body naming the Book of the path) removes the Book and redirects
\* to the Book list, whether or not a BookInstance references the Book.
C14_BookDeleteUnguarded ==
  [][(op' = "book_delete_post") => \A id \in Ids, ok \in BOOLEAN :
       (book_delete_post(id, id, ok) /\ id \in DOMAIN books)
         => (books' = Remove(books, id) /\ Redirected(res', <<"/catalog/books">>))]_vars

\* C14 as the code has it: a Book delete-submit for a stored Book that a
\* BookInstance references removes no Book and changes nothing else; the
\* answer is the delete view of the Book with the BookInstances that
\* reference it.
C14_BookDeleteGuarded ==
  [][(op' = "book_delete_post") => \A id \in Ids, bodyid \in Ids, ok \in BOOLEAN :
       (book_delete_post(id, bodyid, ok) /\ id \in DOMAIN books
          /\ \E i \in DOMAIN bookinstances : bookinstances[i].book = id)
         => /\ UNCHANGED <<store, nextId>>
            /\ Rendered(res', "book-delete")
            /\ res'[1].ctx.book._id = id
            /\ Range(res'[1].ctx.book_instances)
                 = {i \in DOMAIN bookinstances : bookinstances[i].book = id}]_vars

\* The delete of a stored Book was refused: the view lists a BookInstance
\* of it.
C14_Witness ==
  /\ op = "book_delete_post"
  /\ Rendered(res, "book-delete")
  /\ res[1].ctx.book._id \in DOMAIN books
  /\ \E i \in DOMAIN bookinstances :
       /\ bookinstances[i].book = res[1].ctx.book._id
       /\ i \in Range(res[1].ctx.book_instances)

\* C15: the update-get of any kind, for an identifier a stored document
\* has, renders the form of the kind with that document in its context;
\* for a Book the Genres the Book references are marked checked and no
\* other Genre is.
C15_UpdateFormHoldsDocument ==
  [][/\ (op' = "author_update_get") => \A id \in Ids :
          (author_update_get(id) /\ id \in DOMAIN authors)
            => /\ Rendered(res', "author-form")
               /\ "author" \in DOMAIN res'[1].ctx
               /\ res'[1].ctx.author = Doc(authors, id)
     /\ (op' = "genre_update_get") => \A id \in Ids :
          (genre_update_get(id) /\ id \in DOMAIN genres)
            => /\ Rendered(res', "genre-form")
               /\ "genre" \in DOMAIN res'[1].ctx
               /\ res'[1].ctx.genre = Doc(genres, id)
     /\ (op' = "book_update_get") => \A id \in Ids :
          (book_update_get(id) /\ id \in DOMAIN books)
            => /\ Rendered(res', "book-form")
               /\ "book" \in DOMAIN res'[1].ctx
               /\ res'[1].ctx.book = Doc(books, id)
               /\ \A g \in DOMAIN genres :
                    res'[1].ctx.genres[g] = (\E i \in DOMAIN books[id].genre :
                                               books[id].genre[i] = g)
     /\ (op' = "bookinstance_update_get") => \A id \in Ids :
          (bookinstance_update_get(id) /\ id \in DOMAIN bookinstances)
            => /\ Rendered(res', "bookinstance-form")
               /\ "bookinstance" \in DOMAIN res'[1].ctx
               /\ res'[1].ctx.bookinstance = Doc(bookinstances, id)]_vars

\* C16: when the rendering of a view fails in a handler, the failure is
\* logged and the request gets no answer: nothing is sent and no error
\* reaches the error handler.
C16_RenderFailureLeavesNoAnswer ==
  (\E i \in DOMAIN res : res[i] = Logged) => Answers(res) = <<>>

\* C17: a request is answered at most once: a handler that has redirected
\* neither renders nor redirects again, and so gives no error of a second
\* answer to the error handler either.
C17_AtMostOneAnswer == Len(Answers(res)) <= 1

\* C18: the document a delete submission removes is the one whose
\* dependents it looked for: whatever the id in the path and the id in the
\* body, no Author with a Book, no Genre with a Book and no Book with a
\* BookInstance is removed by the submission.
C18_RemovedIsTheOneChecked ==
  [][/\ (op' = "author_delete_post") =>
          \A a \in DOMAIN authors : a \notin DOMAIN authors' => BooksByAuthor(a) = {}
     /\ (op' = "genre_delete_post") =>
          \A g \in DOMAIN genres : g \notin DOMAIN genres' => BooksInGenre(g) = {}
     /\ (op' = "book_delete_post") =>
          \A b \in DOMAIN books : b \notin DOMAIN books' => InstancesOfBook(b) = {}]_vars

\* C19: no two Genres of the store have names that are equal up to case,
\* whatever Genre forms were submitted for creation and for update.
C19_GenreNamesDistinctUpToCase ==
  \A g \in DOMAIN genres : \A h \in DOMAIN genres :
    g # h => ~CollationEqual(genres[g].name, genres[h].name)

\* C20: the home page shows the counts of the store: of the Books, of the
\* BookInstances, of the available BookInstances, of the Authors and of
\* the Genres.
C20_IndexCountsMatchStore ==
  (op = "index") =>
    /\ Rendered(res, "index")
    /\ res[1].ctx.book_count = Cardinality(DOMAIN books)
    /\ res[1].ctx.book_instance_count = Cardinality(DOMAIN bookinstances)
    /\ res[1].ctx.book_instance_available_count =
         Cardinality({i \in DOMAIN bookinstances :
                        bookinstances[i].status = <<"Available">>})
    /\ res[1].ctx.author_count = Cardinality(DOMAIN authors)
    /\ res[1].ctx.genre_count = Cardinality(DOMAIN genres)

====
